---- MODULE Spec2Model ----
(***************************************************************************)
(* Model of GenerativeBrainModel/custom_functions/utils.py: the            *)
(* straight-through multinomial sampler, RMSNorm, the two-hot exponential  *)
(* binning loss with its decoder, the KL divergence, least_power_of_2 and  *)
(* AddUniformBase.                                                         *)
(*                                                                         *)
(* Tensors are sequences (rows) and sequences of sequences (batches),      *)
(* indexed from 1 where the source indexes from 0.  Tensor elements are    *)
(* extended rationals <<n, d>>: d > 0 is the finite value n/d in lowest    *)
(* terms, <<1, 0>> is +inf, <<-1, 0>> is -inf and <<0, 0>> is NaN.  The    *)
(* arithmetic is exact, so the model covers the inputs on which the        *)
(* source's floating-point operations are exact as well (integer bin       *)
(* exponents, rational root-mean-squares, power-of-two probabilities).     *)
(***************************************************************************)
EXTENDS Integers, Sequences, FiniteSets

\* op: the operation applied last; args: its inputs; ret: what it returned
\* or raised; ctx: the autograd context of the STsampleMultiNom application;
\* norm: the RMSNorm layer (its configuration and learnable parameters).
VARIABLES op, args, ret, ctx, norm

vars == <<op, args, ret, ctx, norm>>

\* ------------------------------------------------------------------------
\* Extended rational arithmetic (the element type of a tensor)
\* ------------------------------------------------------------------------

Abs(a) == IF a < 0 THEN -a ELSE a

Sign(a) == IF a > 0 THEN 1 ELSE IF a < 0 THEN -1 ELSE 0

RECURSIVE GCD(_, _)
GCD(a, b) == IF b = 0 THEN a ELSE GCD(b, a % b)

NaN == <<0, 0>>

PosInf == <<1, 0>>

NegInf == <<-1, 0>>

\* n/d in lowest terms with a positive denominator; x/0 is +-inf, 0/0 is NaN.
Q(n, d) ==
    IF d = 0 THEN <<Sign(n), 0>>
    ELSE LET g == GCD(Abs(n), Abs(d))
             s == IF d < 0 THEN -1 ELSE 1
         IN  <<(s * n) \div g, (s * d) \div g>>

R(i) == <<i, 1>>

IsFinite(x) == x[2] # 0

IsNaN(x) == x = NaN

QAdd(x, y) ==
    IF IsFinite(x) /\ IsFinite(y) THEN Q(x[1] * y[2] + y[1] * x[2], x[2] * y[2])
    ELSE IF IsNaN(x) \/ IsNaN(y) THEN NaN
    ELSE IF IsFinite(x) THEN y
    ELSE IF IsFinite(y) THEN x
    ELSE IF x = y THEN x ELSE NaN

QNeg(x) == <<-x[1], x[2]>>

QSub(x, y) == QAdd(x, QNeg(y))

QMul(x, y) == Q(x[1] * y[1], x[2] * y[2])

\* IEEE division: finite/0 is +-inf, 0/0 and inf/inf are NaN, finite/inf is 0.
QDiv(x, y) ==
    IF IsNaN(x) \/ IsNaN(y) THEN NaN
    ELSE IF ~IsFinite(x) /\ ~IsFinite(y) THEN NaN
    ELSE IF ~IsFinite(y) THEN R(0)
    ELSE IF ~IsFinite(x) THEN (IF y[1] < 0 THEN QNeg(x) ELSE x)
    ELSE Q(x[1] * y[2], x[2] * y[1])

\* x < y on floats: false whenever an operand is NaN.
QLess(x, y) ==
    IF IsNaN(x) \/ IsNaN(y) THEN FALSE
    ELSE IF IsFinite(x) /\ IsFinite(y) THEN x[1] * y[2] < y[1] * x[2]
    ELSE IF IsFinite(x) THEN y = PosInf
    ELSE IF IsFinite(y) THEN x = NegInf
    ELSE x = NegInf /\ y = PosInf

QLeq(x, y) == ~IsNaN(x) /\ ~IsNaN(y) /\ ~QLess(y, x)

RECURSIVE Pow2(_)
Pow2(e) == IF e = 0 THEN 1 ELSE 2 * Pow2(e - 1)

RECURSIVE SeqSum(_)
SeqSum(s) == IF s = <<>> THEN R(0) ELSE QAdd(s[1], SeqSum(Tail(s)))

None == [kind |-> "none"]

Value(v) == [kind |-> "value", val |-> v]

Raised(e) == [kind |-> "raised", exc |-> e]

\* ------------------------------------------------------------------------
\* STsampleMultiNom
\* ------------------------------------------------------------------------

MaxElems == 4

Weights == {0, 1, 2}

GradVals == {-1, 1}

Shapes == {sh \in (1..MaxElems) \X (1..MaxElems) : sh[1] * sh[2] <= MaxElems}

Batches(S) == UNION {[1..sh[1] -> [1..sh[2] -> S]] : sh \in Shapes}

\* Valid categorical weights: no negative entry and a positive row sum.
ValidRow(row) ==
    /\ \A j \in 1..Len(row) : row[j] >= 0
    /\ \E j \in 1..Len(row) : row[j] > 0

\* torch.multinomial(input, 1): per row the indices that can be drawn.  A
\* category of weight zero is never drawn.
MultinomialSupport(row) == {j \in 1..Len(row) : row[j] > 0}

OneHotMutAnyIndex(input, x) ==
    [i \in 1..Len(input) |->
        [j \in 1..Len(input[i]) |-> IF j = (x[i] % Len(input[i])) + 1 THEN 1 ELSE 0]]

\* one_hot = zeros_like(input); one_hot.scatter_(1, x, 1)
OneHot(input, x) ==
    [i \in 1..Len(input) |-> [j \in 1..Len(input[i]) |-> IF j = x[i] THEN 1 ELSE 0]]

\* STsampleMultiNom.forward, applied to a fresh ctx (autograd hands every
\* application of the function its own ctx).  For a batch with an invalid
\* row the sampling is undefined: the library either refuses the input or
\* draws some index.
STsampleForward ==
    /\ ctx = None
    /\ \E input \in Batches(Weights) :
        /\ op' = "forward"
        /\ args' = [input |-> input]
        /\ ctx' = [saved |-> input]
        /\ \/ \E x \in [1..Len(input) -> 1..Len(input[1])] :
                /\ \A i \in 1..Len(input) :
                       ValidRow(input[i]) => x[i] \in MultinomialSupport(input[i])
                /\ ret' = Value(OneHot(input, x))
           \/ /\ \E i \in 1..Len(input) : ~ValidRow(input[i])
              /\ ret' = Raised("RuntimeError")
        /\ UNCHANGED norm

BackwardMutMasked(saved, grad_output) ==
    [i \in 1..Len(grad_output) |->
        [j \in 1..Len(grad_output[i]) |->
            IF saved[i][j] > 0 THEN grad_output[i][j] ELSE 0]]

\* STsampleMultiNom.backward: input, = ctx.saved_tensors; return grad_output, None
BackwardGrad(saved, grad_output) == grad_output

STsampleBackward ==
    /\ \/ op = "forward" /\ ret.kind = "value"
       \/ op = "backward"
    /\ \E grad_output \in [1..Len(ctx.saved) -> [1..Len(ctx.saved[1]) -> GradVals]] :
        /\ op' = "backward"
        /\ args' = [grad_output |-> grad_output]
        /\ ret' = Value(<<BackwardGrad(ctx.saved, grad_output), None>>)
    /\ UNCHANGED <<ctx, norm>>

InitSampler ==
    /\ op = "none"
    /\ args = None
    /\ ret = None
    /\ ctx = None
    /\ norm = None

NextSampler == STsampleForward \/ STsampleBackward

SpecSampler == InitSampler /\ [][NextSampler]_vars

AllRowsValid(input) == \A i \in 1..Len(input) : ValidRow(input[i])

\* C1: for every batch of valid categorical weights, every result of
\* STsampleMultiNom.forward has the shape of the input, each row holds exactly
\* one 1 and 0 everywhere else, and the index holding the 1 has a strictly
\* positive weight in the same row of the input.
C1_ForwardOneHot ==
    (op = "forward" /\ AllRowsValid(args.input)) =>
        /\ ret.kind = "value"
        /\ Len(ret.val) = Len(args.input)
        /\ \A i \in 1..Len(args.input) :
            /\ Len(ret.val[i]) = Len(args.input[i])
            /\ \A j \in 1..Len(ret.val[i]) : ret.val[i][j] \in {0, 1}
            /\ Cardinality({j \in 1..Len(ret.val[i]) : ret.val[i][j] = 1}) = 1
            /\ \A j \in 1..Len(ret.val[i]) :
                   ret.val[i][j] = 1 => args.input[i][j] > 0

\* A batch of two valid rows, each with a category of weight zero, sampled.
C1_Witness ==
    /\ op = "forward"
    /\ ret.kind = "value"
    /\ Len(args.input) = 2
    /\ AllRowsValid(args.input)
    /\ \A i \in 1..2 : \E j \in 1..Len(args.input[i]) : args.input[i][j] = 0
    /\ ret.val[1] # ret.val[2]

\* C2: STsampleMultiNom.backward returns as the gradient of the input exactly
\* the gradient it received for the one-hot output, element for element,
\* whatever input forward saved and whatever category it drew.
C2_BackwardIdentity ==
    op = "backward" =>
        /\ ret.kind = "value"
        /\ ret.val[1] = args.grad_output
        /\ ret.val[2] = None

\* A gradient that is non-zero at a category whose saved weight is zero.
C2_Witness ==
    /\ op = "backward"
    /\ \E i \in 1..Len(ctx.saved) : \E j \in 1..Len(ctx.saved[i]) :
           ctx.saved[i][j] = 0 /\ args.grad_output[i][j] # 0
    /\ \E i \in 1..Len(ctx.saved) : \E j \in 1..Len(ctx.saved[i]) :
           ctx.saved[i][j] # args.grad_output[i][j]

\* ------------------------------------------------------------------------
\* RMSNorm
\* ------------------------------------------------------------------------

MaxD == 4

MaxOptSteps == 1

\* Configured partial fractions p, as plain fractions <<numerator, denominator>>:
\* below 0 (the default -1), inside [0, 1] with both ends, and above 1.
PVals == {<<-1, 1>>, <<0, 1>>, <<1, 2>>, <<1, 1>>, <<2, 1>>}

EpsVals == {R(0), Q(1, 2)}

XVals == {-3, 0, 1, 3}

ScaleVals == {R(1), R(2)}

OffsetVals == {R(0), R(1)}

Ones(d) == [i \in 1..d |-> R(1)]

Zeros(d) == [i \in 1..d |-> R(0)]

\* RMSNorm.__init__: scale = ones(d); offset = zeros(d) only when bias is set.
RMSNormInit ==
    /\ norm = None
    /\ \E d \in 1..MaxD, p \in PVals, eps \in EpsVals, bias \in BOOLEAN :
        norm' = [kind |-> "RMSNorm", d |-> d, p |-> p, eps |-> eps, bias |-> bias,
                 scale |-> Ones(d),
                 offset |-> IF bias THEN Zeros(d) ELSE <<>>,
                 steps |-> 0]
    /\ op' = "rmsnorm_init"
    /\ args' = None
    /\ ret' = None
    /\ UNCHANGED ctx

\* The learnable parameters (nn.Parameter) are updated between two forward
\* calls by the optimizer that owns them, one element per step here.
OptimizerStep ==
    /\ norm # None
    /\ norm.steps < MaxOptSteps
    /\ \E i \in 1..norm.d :
        \/ \E v \in ScaleVals \ {norm.scale[i]} :
              norm' = [norm EXCEPT !.scale[i] = v, !.steps = @ + 1]
        \/ /\ norm.bias
           /\ \E v \in OffsetVals \ {norm.offset[i]} :
                 norm' = [norm EXCEPT !.offset[i] = v, !.steps = @ + 1]
    /\ op' = "optimizer_step"
    /\ args' = None
    /\ ret' = None
    /\ UNCHANGED ctx

\* int(self.d * self.p) for 0 <= p <= 1: truncation of a non-negative product.
PartialSize(d, p) == (d * p[1]) \div p[2]

\* The number of leading features the norm is taken over (d_x).
NormSize(d, p) ==
    IF p[1] < 0 \/ p[1] > p[2] THEN d ELSE PartialSize(d, p)

RECURSIVE SumSq(_, _)
SumSq(x, m) == IF m = 0 THEN 0 ELSE x[m] * x[m] + SumSq(x, m - 1)

IsSquare(n) == \E k \in 0..n : k * k = n

ISqrt(n) == CHOOSE k \in 0..n : k * k = n

\* A 2-norm or a power -1/2 is kept as its square (the radicand); the product
\* of two such values is the product of the radicands.
HasRoot(rad) == IsFinite(rad) /\ rad[1] >= 0 /\ IsSquare(rad[1]) /\ IsSquare(rad[2])

RootValue(rad) == Q(ISqrt(rad[1]), ISqrt(rad[2]))

\* x.norm(2, dim=-1) over the first m features, as a radicand.
Norm2Rad(x, m) == R(SumSq(x, m))

\* rms_x = norm_x * d_x ** (-1. / 2), as a radicand; d_x > 0.
RmsRad(x, d_x) == QMul(Norm2Rad(x, d_x), Q(1, d_x))

\* RMSNorm.forward on one feature vector x of size d.  d_x ** (-1. / 2) is
\* Python arithmetic on the int d_x: for d_x = 0 it raises ZeroDivisionError
\* before any tensor operation runs.
RMSForward(n, x) ==
    LET d_x == NormSize(n.d, n.p)
    IN  IF d_x = 0 THEN Raised("ZeroDivisionError")
        ELSE LET rms_x == RootValue(RmsRad(x, d_x))
                 den == QAdd(rms_x, n.eps)
                 x_normed == [i \in 1..n.d |-> QDiv(R(x[i]), den)]
             IN  IF n.bias
                 THEN Value([i \in 1..n.d |->
                                QAdd(QMul(n.scale[i], x_normed[i]), n.offset[i])])
                 ELSE Value([i \in 1..n.d |-> QMul(n.scale[i], x_normed[i])])

\* Inputs are the vectors whose root-mean-square is rational.
RMSNormForward ==
    /\ norm # None
    /\ \E x \in [1..norm.d -> XVals] :
        /\ NormSize(norm.d, norm.p) > 0 => HasRoot(RmsRad(x, NormSize(norm.d, norm.p)))
        /\ op' = "rmsnorm"
        /\ args' = [x |-> x]
        /\ ret' = RMSForward(norm, x)
    /\ UNCHANGED <<ctx, norm>>

InitNorm ==
    /\ op = "none"
    /\ args = None
    /\ ret = None
    /\ ctx = None
    /\ norm = None

NextNorm == RMSNormInit \/ OptimizerStep \/ RMSNormForward

SpecNorm == InitNorm /\ [][NextNorm]_vars

\* The claimed output element i: scale[i] * x[i] / (rms + eps), plus offset[i]
\* when bias is enabled, with rms = ||x[0:m]||_2 / sqrt(m).
ClaimedRMSOutput(n, x, m, i) ==
    LET rms == RootValue(Q(SumSq(x, m), m))
        scaled == QMul(n.scale[i], QDiv(R(x[i]), QAdd(rms, n.eps)))
    IN  IF n.bias THEN QAdd(scaled, n.offset[i]) ELSE scaled

\* C6: RMSNorm.forward returns x / (rms + eps) * scale (+ offset when bias is
\* enabled), where rms is taken over the first m features, m = d when p < 0
\* or p > 1 and m = floor(d * p) when 0 <= p <= 1; with p disabled, eps = 0,
\* scale all ones and no bias, d = 4 and x = [3, 0, 0, 0] give [2, 0, 0, 0].
C6_RMSNormFormula ==
    op = "rmsnorm" =>
        LET m == IF norm.p[1] < 0 \/ norm.p[1] > norm.p[2] THEN norm.d
                 ELSE (norm.d * norm.p[1]) \div norm.p[2]
        IN  /\ ret.kind = "value"
            /\ m > 0 => \A i \in 1..norm.d :
                            ret.val[i] = ClaimedRMSOutput(norm, args.x, m, i)
            /\ (/\ norm.d = 4 /\ norm.p = <<-1, 1>> /\ norm.eps = R(0)
                /\ ~norm.bias /\ norm.scale = Ones(4)
                /\ args.x = <<3, 0, 0, 0>>)
               => ret.val = <<R(2), R(0), R(0), R(0)>>

\* C7: no numeric operation ends by raising an exception: RMSNorm.forward
\* returns an output array for every d >= 1, every p and every input, and
\* twohot_exp_loss returns a (loss, predicted_values) pair for every target.
C7_NeverRaises ==
    op \in {"rmsnorm", "twohot_exp_loss"} => ret.kind = "value"

\* ------------------------------------------------------------------------
\* twohot_exp_loss and logits_to_value
\* ------------------------------------------------------------------------

MaxBins == 4

MaxExp == 4

MinExps == {0, 1}

BatchSizes == {1, 2}

\* torch.linspace(min_exp, max_exp, num_bins), for the configurations whose
\* exponents are integers (num_bins - 1 divides max_exp - min_exp).
Exponents(num_bins, min_exp, max_exp) ==
    [i \in 1..num_bins |-> min_exp + ((i - 1) * (max_exp - min_exp)) \div (num_bins - 1)]

\* bins = 2.0 ** exponents
Bins(num_bins, min_exp, max_exp) ==
    [i \in 1..num_bins |-> R(Pow2(Exponents(num_bins, min_exp, max_exp)[i]))]

\* exponent < torch.log2(v): log2 of a negative v is NaN and log2(0) is -inf,
\* and no exponent is below either; for v > 0 the comparison is 2^exponent < v.
ExponentBelowLog2(e, v) == v[1] > 0 /\ QLess(R(Pow2(e)), v)

Clamp(k, lo, hi) == IF k < lo THEN lo ELSE IF k > hi THEN hi ELSE k

BinIndexMutLeq(v, num_bins, min_exp, max_exp) ==
    Clamp(Cardinality({i \in 1..num_bins :
              v[1] > 0 /\ QLeq(Bins(num_bins, min_exp, max_exp)[i], v)}),
          0, num_bins - 2)

\* k = clamp(sum(exponents < log2_true), 0, num_bins - 2), a 0-based index.
BinIndex(v, num_bins, min_exp, max_exp) ==
    Clamp(Cardinality({i \in 1..num_bins :
              ExponentBelowLog2(Exponents(num_bins, min_exp, max_exp)[i], v)}),
          0, num_bins - 2)

\* weight_upper = (v - lower_bin) / (upper_bin - lower_bin)
WeightUpper(v, num_bins, min_exp, max_exp) ==
    LET bins == Bins(num_bins, min_exp, max_exp)
        k == BinIndex(v, num_bins, min_exp, max_exp)
    IN  QDiv(QSub(v, bins[k + 1]), QSub(bins[k + 2], bins[k + 1]))

\* weight_lower = 1 - weight_upper
WeightLower(v, num_bins, min_exp, max_exp) ==
    QSub(R(1), WeightUpper(v, num_bins, min_exp, max_exp))

\* twohot = zeros; scatter weight_lower at k, then weight_upper at k + 1.
TwoHot(v, num_bins, min_exp, max_exp) ==
    LET k == BinIndex(v, num_bins, min_exp, max_exp)
        at_k == [i \in 1..num_bins |->
                    IF i = k + 1 THEN WeightLower(v, num_bins, min_exp, max_exp)
                    ELSE R(0)]
    IN  [i \in 1..num_bins |->
            IF i = k + 2 THEN WeightUpper(v, num_bins, min_exp, max_exp) ELSE at_k[i]]

\* A row of logits is kept as the row of its exponentials exp(logit): a
\* positive rational for a finite logit, 0 for -inf and NaN for NaN.
\* F.softmax over such a row divides every entry by the row sum.
Softmax(w) ==
    LET total == SeqSum(w)
    IN  [i \in 1..Len(w) |-> QDiv(w[i], total)]

\* torch.log of a tensor, in the same representation: the log of a negative
\* entry is NaN.
Log(t) == [i \in 1..Len(t) |-> IF IsNaN(t[i]) \/ t[i][1] < 0 THEN NaN ELSE t[i]]

\* predicted_values = sum(softmax_probs * bins, dim=1), for one row.
LogitsToValueRow(w, num_bins, min_exp, max_exp) ==
    SeqSum([i \in 1..num_bins |->
               QMul(Softmax(w)[i], Bins(num_bins, min_exp, max_exp)[i])])

\* A tensor argument is its number of dimensions and its data: a value for
\* dim 0, a sequence for dim 1, a sequence of rows for dim 2.
Tensor(dim, data) == [dim |-> dim, data |-> data]

\* if predicted_logits.dim() == 1: predicted_logits = predicted_logits.unsqueeze(0)
Logits2D(predicted_logits) ==
    IF predicted_logits.dim = 1 THEN <<predicted_logits.data>>
    ELSE predicted_logits.data

\* if true_values.dim() == 0: true_values = true_values.unsqueeze(0)
\* elif true_values.dim() == 1: true_values = true_values.unsqueeze(1)
\* A 0-dim target becomes shape (1,), a (B,) target becomes (B, 1), and a
\* (B, 1) target is left as it is.
UnsqueezeTrueValues(true_values) ==
    IF true_values.dim = 0 THEN Tensor(1, <<true_values.data>>)
    ELSE IF true_values.dim = 1
         THEN Tensor(2, [b \in 1..Len(true_values.data) |-> <<true_values.data[b]>>])
         ELSE true_values

\* logits_to_value
LogitsToValue(predicted_logits, num_bins, min_exp, max_exp) ==
    [b \in 1..Len(Logits2D(predicted_logits)) |->
        LogitsToValueRow(Logits2D(predicted_logits)[b], num_bins, min_exp, max_exp)]

\* F.cross_entropy(predicted_logits, twohot, reduction='mean') is the mean
\* over the batch of -sum(twohot * log_softmax(predicted_logits)).  The
\* logarithms are irrational, so the loss is kept as this expression: the
\* soft target and the softmax probabilities it is taken against.
CrossEntropy(predicted_logits, twohot) ==
    [reduction |-> "mean",
     target |-> twohot,
     probs |-> [b \in 1..Len(predicted_logits) |-> Softmax(predicted_logits[b])]]

\* twohot_exp_loss: returns (loss, predicted_values).  exponents < log2_true
\* has as many dimensions as the unsqueezed target; for a target that was
\* 0-dim it is 1-D, and torch.sum(..., dim=1) raises IndexError (dimension
\* out of range) before any index is selected.
TwoHotExpLossResult(predicted_logits, true_values, num_bins, min_exp, max_exp) ==
    LET logits == Logits2D(predicted_logits)
        targets == UnsqueezeTrueValues(true_values)
    IN  IF targets.dim < 2 THEN Raised("IndexError")
        ELSE LET twohot == [b \in 1..Len(targets.data) |->
                               TwoHot(targets.data[b][1], num_bins, min_exp, max_exp)]
             IN  Value(<<CrossEntropy(logits, twohot),
                         LogitsToValue(Tensor(2, logits), num_bins, min_exp, max_exp)>>)

\* Targets tried for a set of bins: every bin value, three points strictly
\* inside every interval of adjacent bins, and points outside the bin range
\* (below the first bin, zero, negative, above the last bin).
Targets(bins) ==
    LET n == Len(bins)
    IN  {bins[i] : i \in 1..n}
        \cup {QAdd(bins[i], QMul(Q(j, 4), QSub(bins[i + 1], bins[i]))) :
                 i \in 1..(n - 1), j \in 1..3}
        \cup {R(0), R(-1), QMul(Q(1, 2), bins[1]), QAdd(bins[n], R(1))}

\* Logit rows tried: all logits equal, and one logit larger than the rest.
LogitRows(num_bins) ==
    {[i \in 1..num_bins |-> R(1)]}
    \cup {[i \in 1..num_bins |-> IF i = c THEN R(3) ELSE R(1)] : c \in {1, num_bins}}

\* predicted_logits of shape (B, num_bins), or (num_bins,) for a single row.
LogitTensors(B, num_bins) ==
    {Tensor(2, d) : d \in [1..B -> LogitRows(num_bins)]}
    \cup (IF B = 1 THEN {Tensor(1, r) : r \in LogitRows(num_bins)} ELSE {})

\* true_values of shape (B,) or (B, 1), or a 0-dim scalar for a single target.
TargetTensors(B, bins) ==
    {Tensor(1, d) : d \in [1..B -> Targets(bins)]}
    \cup {Tensor(2, [b \in 1..B |-> <<d[b]>>]) : d \in [1..B -> Targets(bins)]}
    \cup (IF B = 1 THEN {Tensor(0, v) : v \in Targets(bins)} ELSE {})

TwoHotCalls ==
    UNION {
        [predicted_logits : LogitTensors(c[1], c[2]),
         true_values : TargetTensors(c[1], Bins(c[2], c[3], c[4])),
         num_bins : {c[2]}, min_exp : {c[3]}, max_exp : {c[4]}] :
        c \in {c \in BatchSizes \X (2..MaxBins) \X MinExps \X (1..MaxExp) :
                  c[4] > c[3] /\ (c[4] - c[3]) % (c[2] - 1) = 0}}

\* The targets of a call, one per batch row.
TargetColumn(true_values) ==
    IF true_values.dim = 0 THEN <<true_values.data>>
    ELSE IF true_values.dim = 1 THEN true_values.data
    ELSE [b \in 1..Len(true_values.data) |-> true_values.data[b][1]]

TwoHotExpLoss ==
    /\ op = "none"
    /\ op' = "twohot_exp_loss"
    /\ ret' = TwoHotExpLossResult(args.predicted_logits, args.true_values,
                                  args.num_bins, args.min_exp, args.max_exp)
    /\ UNCHANGED <<args, ctx, norm>>

\* The decoder applied to the logits log(twohot) of the target just encoded.
DecodeTwoHot ==
    /\ op = "twohot_exp_loss"
    /\ ret.kind = "value"
    /\ op' = "logits_to_value"
    /\ args' = [predicted_logits |->
                    Tensor(2, [b \in 1..Len(ret.val[1].target) |->
                                  Log(ret.val[1].target[b])]),
                num_bins |-> args.num_bins, min_exp |-> args.min_exp,
                max_exp |-> args.max_exp,
                twohot |-> ret.val[1].target,
                encoded_values |-> TargetColumn(args.true_values)]
    /\ ret' = Value(LogitsToValue(args'.predicted_logits, args.num_bins,
                                  args.min_exp, args.max_exp))
    /\ UNCHANGED <<ctx, norm>>

InitTwoHot ==
    /\ op = "none"
    /\ args \in TwoHotCalls
    /\ ret = None
    /\ ctx = None
    /\ norm = None

NextTwoHot == TwoHotExpLoss \/ DecodeTwoHot

SpecTwoHot == InitTwoHot /\ [][NextTwoHot]_vars

InBinRange(v, bins) == QLeq(bins[1], v) /\ QLeq(v, bins[Len(bins)])

InUnitInterval(w) == QLeq(R(0), w) /\ QLeq(w, R(1))

\* C3: for every target v with bins[0] <= v <= bins[num_bins-1], the selected
\* index k satisfies bins[k] <= v <= bins[k+1], and weight_lower and
\* weight_upper both lie in [0, 1].
C3_NearestBins ==
    (op = "twohot_exp_loss" /\ ret.kind = "value") =>
        \A b \in 1..Len(TargetColumn(args.true_values)) :
            LET v == TargetColumn(args.true_values)[b]
                bins == Bins(args.num_bins, args.min_exp, args.max_exp)
                k == BinIndex(v, args.num_bins, args.min_exp, args.max_exp)
            IN  InBinRange(v, bins) =>
                    /\ QLeq(bins[k + 1], v)
                    /\ QLeq(v, bins[k + 2])
                    /\ \A i \in 1..args.num_bins : InUnitInterval(ret.val[1].target[b][i])

StrictlyBetweenBins(v, bins) ==
    \E i \in 1..(Len(bins) - 1) : QLess(bins[i], v) /\ QLess(v, bins[i + 1])

IsProbabilityVector(t) ==
    /\ \A i \in 1..Len(t) : QLeq(R(0), t[i])
    /\ SeqSum(t) = R(1)

\* C4: for every target v strictly between two adjacent bin values, the
\* two-hot vector is a probability vector and decoding the logits log(twohot)
\* returns v.
C4_RoundTrip ==
    op = "logits_to_value" =>
        \A b \in 1..Len(args.encoded_values) :
            StrictlyBetweenBins(args.encoded_values[b],
                                Bins(args.num_bins, args.min_exp, args.max_exp)) =>
                /\ IsProbabilityVector(args.twohot[b])
                /\ ret.val[b] = args.encoded_values[b]

IsOneHotAt(t, i) == \A j \in 1..Len(t) : t[j] = (IF j = i THEN R(1) ELSE R(0))

\* The target of batch row b is the value of bin i (1-based).
TargetIsBin(b, i) ==
    TargetColumn(args.true_values)[b]
        = Bins(args.num_bins, args.min_exp, args.max_exp)[i]

MaxSmall == 40

MaxLogExp == 29

MaxN == 4

MaxDen == 4

MaxKLElems == 2

RECURSIVE FloorLog2(_)
FloorLog2(value) == IF value < 2 THEN 0 ELSE 1 + FloorLog2(value \div 2)

IsPow2(value) == value = Pow2(FloorLog2(value))

\* The exponents e, up to 63, for which the double log(2^e) / log(2) that
\* math.log(2 ** e, 2) evaluates is one unit in the last place above e instead
\* of e itself.
LogOvershoot == {29, 31, 39, 47, 51, 55, 58, 59, 62}

\* math.log(value, 2) for an integer value >= 1, as <<whole, above>>: the
\* double equals whole when above = 0 and lies strictly between whole and
\* whole + 1 when above = 1.  Between two powers of two the double is never
\* an integer for the values used here (below 2^49).
LogBase2(value) ==
    IF IsPow2(value)
    THEN <<FloorLog2(value), IF FloorLog2(value) \in LogOvershoot THEN 1 ELSE 0>>
    ELSE <<FloorLog2(value), 1>>

\* math.ceil
Ceil(l) == l[1] + l[2]

\* least_power_of_2
LeastPowerOf2(value) ==
    IF value <= 0 THEN 1 ELSE Pow2(Ceil(LogBase2(value)))

LeastPowerOf2Inputs ==
    (-2..MaxSmall)
    \cup {Pow2(e) : e \in 0..MaxLogExp}
    \cup {Pow2(e) - 1 : e \in 0..MaxLogExp}
    \cup {Pow2(e) + 1 : e \in 0..(MaxLogExp - 1)}

AddUniformBaseMutNoSplit(x) ==
    [i \in 1..Len(x) |-> QAdd(QMul(Q(99, 100), x[i]), Q(1, 100))]

\* AddUniformBase.forward: (0.99 * x) + (0.01 * (1.0 / x.shape[-1]))
AddUniformBase(x) ==
    [i \in 1..Len(x) |->
        QAdd(QMul(Q(99, 100), x[i]), QMul(Q(1, 100), QDiv(R(1), R(Len(x)))))]

\* Vectors over n categories with entries k/den, normalised or not.
AddUniformBaseInputs ==
    UNION {[1..n -> {Q(k, den) : k \in 0..den}] : n \in 1..MaxN, den \in 1..MaxDen}

\* Probabilities 2^-a and 0.  torch.log is kept in units of ln 2, so the log
\* of 2^-a is -a and the log of 0 is -inf; the returned mean is in the same
\* unit.
ProbVals == {R(0), Q(1, 4), Q(1, 2), R(1)}

LogOf(x) == IF x[1] = 0 THEN NegInf ELSE R(-FloorLog2(x[2]))

\* kld = q_probs * (torch.log(q_probs) - torch.log(p_probs)), elementwise
Kld(q, p) ==
    [i \in 1..Len(q) |->
        [j \in 1..Len(q[i]) |-> QMul(q[i][j], QSub(LogOf(q[i][j]), LogOf(p[i][j])))]]

\* tensor.mean(): the sum of all elements over their number
Mean(t) ==
    QDiv(SeqSum([i \in 1..Len(t) |-> SeqSum(t[i])]), R(Len(t) * Len(t[1])))

KLMutClip(q_probs, p_probs, batch_size, free_bits) ==
    LET m == Mean(Kld(q_probs, p_probs))
    IN  IF QLess(m, free_bits) THEN free_bits ELSE m

\* kl_divergence_with_free_bits: return kld.mean()
KLDivergenceWithFreeBits(q_probs, p_probs, batch_size, free_bits) ==
    Mean(Kld(q_probs, p_probs))

KLShapes == {sh \in (1..MaxKLElems) \X (1..MaxKLElems) : sh[1] * sh[2] <= MaxKLElems}

BatchSizeVals == {1, 2}

FreeBitsVals == {R(0), R(1)}

UtilCalls ==
    [fn : {"least_power_of_2"}, value : LeastPowerOf2Inputs]
    \cup [fn : {"add_uniform_base"}, x : AddUniformBaseInputs]
    \cup UNION {[fn : {"kl_divergence_with_free_bits"},
                 q_probs : [1..sh[1] -> [1..sh[2] -> ProbVals]],
                 p_probs : [1..sh[1] -> [1..sh[2] -> ProbVals]],
                 batch_size : BatchSizeVals,
                 free_bits : FreeBitsVals] : sh \in KLShapes}

CallLeastPowerOf2 ==
    /\ op = "none"
    /\ args.fn = "least_power_of_2"
    /\ op' = "least_power_of_2"
    /\ ret' = Value(LeastPowerOf2(args.value))
    /\ UNCHANGED <<args, ctx, norm>>

CallAddUniformBase ==
    /\ op = "none"
    /\ args.fn = "add_uniform_base"
    /\ op' = "add_uniform_base"
    /\ ret' = Value(AddUniformBase(args.x))
    /\ UNCHANGED <<args, ctx, norm>>

CallKLDivergence ==
    /\ op = "none"
    /\ args.fn = "kl_divergence_with_free_bits"
    /\ op' = "kl_divergence_with_free_bits"
    /\ ret' = Value(KLDivergenceWithFreeBits(args.q_probs, args.p_probs,
                                             args.batch_size, args.free_bits))
    /\ UNCHANGED <<args, ctx, norm>>

InitUtil ==
    /\ op = "none"
    /\ args \in UtilCalls
    /\ ret = None
    /\ ctx = None
    /\ norm = None

NextUtil == CallLeastPowerOf2 \/ CallAddUniformBase \/ CallKLDivergence

SpecUtil == InitUtil /\ [][NextUtil]_vars

\* C8: least_power_of_2 returns 1 for every value <= 0 and, for every
\* value > 0, the smallest power of two that is >= value, so that an exact
\* power of two is returned unchanged.
C8_SmallestPowerOfTwo ==
    op = "least_power_of_2" =>
        IF args.value <= 0 THEN ret.val = 1
        ELSE /\ IsPow2(ret.val)
             /\ ret.val >= args.value
             /\ (ret.val = 1 \/ ret.val \div 2 < args.value)

IsUniform(x) == \A i \in 1..Len(x) : x[i] = Q(1, Len(x))

\* C9: AddUniformBase.forward maps every probability vector x over n
\* categories to 0.99*x + 0.01/n, which sums to 1 and has every entry
\* >= 0.01/n > 0; the uniform distribution is returned unchanged.
C9_UniformMix ==
    (op = "add_uniform_base" /\ IsProbabilityVector(args.x)) =>
        LET n == Len(args.x)
        IN  /\ Len(ret.val) = n
            /\ \A i \in 1..n :
                /\ ret.val[i][1] * 100 * n * args.x[i][2]
                       = (99 * n * args.x[i][1] + args.x[i][2]) * ret.val[i][2]
                /\ QLeq(Q(1, 100 * n), ret.val[i])
                /\ QLess(R(0), ret.val[i])
            /\ SeqSum(ret.val) = R(1)
            /\ IsUniform(args.x) => ret.val = args.x

\* A distribution over three or more categories with an empty category.
C9_Witness ==
    /\ op = "add_uniform_base"
    /\ IsProbabilityVector(args.x)
    /\ Len(args.x) >= 3
    /\ \E i \in 1..Len(args.x) : args.x[i] = R(0)
    /\ \E i \in 1..Len(args.x) : ret.val[i] = Q(1, 100 * Len(args.x))

\* The mean over all elements of q * (log q - log p), element by element.
ElementMean(q, p) ==
    LET rows == Len(q)
        cols == Len(q[1])
        flat == [e \in 1..(rows * cols) |->
                    LET i == ((e - 1) \div cols) + 1
                        j == ((e - 1) % cols) + 1
                    IN  QMul(q[i][j], QAdd(LogOf(q[i][j]), QNeg(LogOf(p[i][j]))))]
    IN  QDiv(SeqSum(flat), R(rows * cols))

\* C10: kl_divergence_with_free_bits returns the mean over all elements of
\* q * (log q - log p), and for fixed q_probs and p_probs the result is the
\* same for every free_bits and every batch_size.
C10_UnclippedMean ==
    op = "kl_divergence_with_free_bits" =>
        /\ ret.val = ElementMean(args.q_probs, args.p_probs)
        /\ \A batch_size \in BatchSizeVals, free_bits \in FreeBitsVals :
               KLDivergenceWithFreeBits(args.q_probs, args.p_probs,
                                        batch_size, free_bits) = ret.val

\* A finite divergence below free_bits, with a batch_size that is not the
\* number of elements.
C10_Witness ==
    /\ op = "kl_divergence_with_free_bits"
    /\ IsFinite(ret.val)
    /\ ret.val # R(0)
    /\ QLess(ret.val, args.free_bits)
    /\ args.batch_size # Len(args.q_probs) * Len(args.q_probs[1])
    /\ args.batch_size # Len(args.q_probs)

====
